---- MODULE Spec2Model ----
(***************************************************************************)
(* Model of helixerprep/datas/sequences.py: StructuredGenome,              *)
(* StructuredSequence, SequenceSlice, MetaInfoGenome, MetaInfoSequence,    *)
(* MerCounter, gen_mers, reverse_complement and chunk_str.                 *)
(*                                                                         *)
(* Python strings are modelled as sequences of one-character strings, so   *)
(* that slicing, reversal, suffix tests and replacement are computed.      *)
(***************************************************************************)
EXTENDS Integers, Sequences, FiniteSets, TLC

VARIABLES
    slices,      \* StructuredSequence.slices
    meta_info,   \* StructuredSequence.meta_info
    lastOp,      \* the last method called on the StructuredSequence
    user_seed,   \* user_seed argument of the last divvy_up_sequence call
    max_len,     \* max_len argument of the last divvy_up_sequence call
    sequences,   \* StructuredGenome.sequences
    genome,      \* StructuredGenome.meta_info
    ingested,    \* the MetaInfo of each sequence of the genome as it was at ingestion
    input,       \* argument(s) of the function or method under study
    output,      \* its result
    pc           \* how far the function harness has got

seqVars == <<slices, meta_info, lastOp, user_seed, max_len>>

genomeVars == <<sequences, genome, ingested>>

fnVars == <<input, output, pc>>

vars == <<seqVars, genomeVars, fnVars>>

(***************************************************************************)
(* Bounds of the model.                                                    *)
(***************************************************************************)
MaxRCLen == 2

\* longest enumerated sequence text handed to StructuredSequence.add_sequence
MaxTextLen == 2

\* largest small max_len handed to divvy_up_sequence
MaxMaxLen == 2

\* add_sequence is not called on a StructuredSequence that holds this many slices
MaxAddSlices == 2

MaxPathTokens == 3

\* most sequences a genome holds
MaxSeqs == 2

\* most records of one FASTA file
MaxRecords == 2

\* longest text handed to MerCounter.add_sequence
MaxMerLen == 4

\* largest word length k of a MerCounter
MaxK == 2

(***************************************************************************)
(* Python str primitives.                                                  *)
(***************************************************************************)
\* the printable ASCII characters from code point 32 on; three that the model never
\* uses are held by placeholders so that the positions stay right
Ascii ==
    << " ", "!", "<34>", "#", "$", "%", "&", "'", "(", ")", "*", "+", ",", "-", ".", "/",
       "0", "1", "2", "3", "4", "5", "6", "7", "8", "9", ":", ";", "<", "=", ">", "?",
       "@", "A", "B", "C", "D", "E", "F", "G", "H", "I", "J", "K", "L", "M", "N", "O",
       "P", "Q", "R", "S", "T", "U", "V", "W", "X", "Y", "Z", "[", "<92>", "]", "^", "_",
       "<96>", "a", "b", "c", "d", "e", "f", "g", "h", "i", "j", "k", "l", "m", "n", "o",
       "p", "q", "r", "s", "t", "u", "v", "w", "x", "y", "z", "{", "|", "}", "~" >>

CodePoints ==
    [c \in {Ascii[i] : i \in 1..Len(Ascii)} |-> 31 + CHOOSE i \in 1..Len(Ascii) : Ascii[i] = c]

\* ord(c)
CodePoint(c) ==
    CodePoints[c]

\* str.lower() on one character
LowerChar(c) ==
    IF CodePoint(c) >= 65 /\ CodePoint(c) <= 90 THEN Ascii[CodePoint(c) + 32 - 31] ELSE c

\* str.lower()
Lower(s) ==
    [i \in 1..Len(s) |-> LowerChar(s[i])]

\* s[b:e] for 0 <= b, with Python's clipping of e to len(s)
Slice(s, b, e) ==
    LET hi == IF e > Len(s) THEN Len(s) ELSE e
    IN  IF b >= hi THEN << >> ELSE [i \in 1..(hi - b) |-> s[b + i]]

\* reversed(s)
Reversed(s) ==
    [i \in 1..Len(s) |-> s[Len(s) + 1 - i]]

\* a < b for two Python strings (lexicographic by code point)
RECURSIVE StrLess(_, _)
StrLess(a, b) ==
    IF Len(b) = 0 THEN FALSE
    ELSE IF Len(a) = 0 THEN TRUE
    ELSE IF a[1] # b[1] THEN CodePoint(a[1]) < CodePoint(b[1])
    ELSE StrLess(Tail(a), Tail(b))

\* min(a, b) for two Python strings
StrMin(a, b) ==
    IF StrLess(b, a) THEN b ELSE a

\* s.endswith(suffix)
EndsWith(s, suffix) ==
    /\ Len(s) >= Len(suffix)
    /\ Slice(s, Len(s) - Len(suffix), Len(s)) = suffix

\* s.startswith(prefix)
StartsWith(s, prefix) ==
    /\ Len(s) >= Len(prefix)
    /\ Slice(s, 0, Len(prefix)) = prefix

\* s.replace(old, ''), for non-empty old: every non-overlapping occurrence, left to right
RECURSIVE RemoveAll(_, _)
RemoveAll(s, old) ==
    IF Len(s) = 0 THEN << >>
    ELSE IF StartsWith(s, old) THEN RemoveAll(Slice(s, Len(old), Len(s)), old)
    ELSE <<s[1]>> \o RemoveAll(Tail(s), old)

\* s.split(sep)[-1] for a one-character sep: what follows the last sep
RECURSIVE AfterLast(_, _)
AfterLast(s, sep) ==
    IF Len(s) = 0 THEN << >>
    ELSE IF s[Len(s)] = sep THEN << >>
    ELSE AfterLast(Slice(s, 0, Len(s) - 1), sep) \o <<s[Len(s)]>>

\* s.split(sep)[0] for a one-character sep: what precedes the first sep
RECURSIVE BeforeFirst(_, _)
BeforeFirst(s, sep) ==
    IF Len(s) = 0 THEN << >>
    ELSE IF s[1] = sep THEN << >>
    ELSE <<s[1]>> \o BeforeFirst(Tail(s), sep)

\* the characters occurring in s
Chars(s) ==
    {s[i] : i \in 1..Len(s)}

\* TRUE for every x; it makes x be evaluated where it stands, so that a loop's running
\* value is computed in each round instead of being left pending until the last one
Evaluated(x) ==
    x = x

\* all strings over an alphabet of length at most n
StringsUpTo(alphabet, n) ==
    UNION {[1..m -> alphabet] : m \in 0..n}

(***************************************************************************)
(* reverse_complement                                                      *)
(***************************************************************************)
fw_upper ==
    <<"A", "C", "G", "T", "M", "R", "W", "S", "Y", "K", "V", "H", "D", "B", "N">>

rv_upper_MK ==
    <<"T", "G", "C", "A", "K", "Y", "W", "S", "R", "K", "B", "D", "H", "V", "N">>

rv_upper ==
    <<"T", "G", "C", "A", "K", "Y", "W", "S", "R", "M", "B", "D", "H", "V", "N">>

\* fw += fw.lower()
fw ==
    fw_upper \o Lower(fw_upper)

\* rv += rv.lower()
rv ==
    rv_upper \o Lower(rv_upper)

\* key = {}; for f, r in zip(fw, rv): key[f] = r    (a later pair overwrites an earlier one)
key ==
    [f \in Chars(fw) |->
        rv[CHOOSE i \in 1..Len(fw) : fw[i] = f /\ \A j \in (i + 1)..Len(fw) : fw[j] # f]]

\* the loop over reversed(seq), from position i of the reversed string with rc_seq built so far
RECURSIVE rc_loop(_, _, _)
rc_loop(rseq, i, rc_seq) ==
    IF i > Len(rseq) THEN [raised |-> FALSE, rc_seq |-> rc_seq]
    ELSE IF rseq[i] \in DOMAIN key THEN rc_loop(rseq, i + 1, rc_seq \o <<key[rseq[i]]>>)
    ELSE [raised |-> TRUE, base |-> rseq[i]]

\* faulty variant: the except clause swallows the KeyError and goes on
RECURSIVE rc_loop_swallow(_, _, _)
rc_loop_swallow(rseq, i, rc_seq) ==
    IF i > Len(rseq) THEN [raised |-> FALSE, rc_seq |-> rc_seq]
    ELSE IF rseq[i] \in DOMAIN key THEN rc_loop_swallow(rseq, i + 1, rc_seq \o <<key[rseq[i]]>>)
    ELSE rc_loop_swallow(rseq, i + 1, rc_seq)

reverse_complement_swallow(seq) ==
    rc_loop_swallow(Reversed(seq), 1, << >>)

\* reverse_complement(seq): either the result string, or a KeyError naming a character
reverse_complement(seq) ==
    rc_loop(Reversed(seq), 1, << >>)

(***************************************************************************)
(* MetaInfoGenome.species_from_path / maybe_add_info_from_fasta            *)
(***************************************************************************)
dot_fasta ==
    <<".", "f", "a", "s", "t", "a">>

dot_fa ==
    <<".", "f", "a">>

species_from_path(fasta_path) ==
    LET name == IF "/" \in Chars(fasta_path) THEN AfterLast(fasta_path, "/") ELSE fasta_path
    IN  IF EndsWith(name, dot_fasta) THEN RemoveAll(name, dot_fasta)
        ELSE IF EndsWith(name, dot_fa) THEN RemoveAll(name, dot_fa)
        ELSE name

\* returns the species field after the call
maybe_add_info_from_fasta(species, fasta) ==
    IF species = << >> THEN species_from_path(fasta) ELSE species

(***************************************************************************)
(* gen_mers, chunk_str, MerCounter                                         *)
(***************************************************************************)
\* range(n) as the sequence 0, 1, .. n-1 (empty when n <= 0)
Range0(n) ==
    [i \in 1..(IF n > 0 THEN n ELSE 0) |-> i - 1]

\* faulty variant: one window too few
gen_mers_short(sequence, k) ==
    [j \in 1..Len(Range0(Len(sequence) - k)) |-> Slice(sequence, j - 1, j - 1 + k)]

\* the windows sequence[i:(i+k)] for i in range(len(sequence) - k + 1), in order
gen_mers(sequence, k) ==
    [j \in 1..Len(Range0(Len(sequence) - k + 1)) |-> Slice(sequence, j - 1, j - 1 + k)]

\* the pieces string[i:(i+length)] for i in range(0, len(string), length), in order
chunk_str(string, length) ==
    [j \in 1..((Len(string) + length - 1) \div length) |->
        Slice(string, (j - 1) * length, j * length)]

\* MerCounter.amb; a one-element tuple so that it lives with the k-mer keys
amb ==
    <<"ambiguous_mers">>

atcg ==
    <<"a", "t", "c", "g">>

\* every string of prev followed by every character of 'atcg', in generation order
product_extend(prev) ==
    [j \in 1..(Len(prev) * 4) |-> prev[((j - 1) \div 4) + 1] \o <<atcg[((j - 1) % 4) + 1]>>]

\* itertools.product('atcg', repeat=k), joined, in generation order
RECURSIVE product(_)
product(k) ==
    IF k = 0 THEN << << >> >> ELSE product_extend(product(k - 1))

\* the elements of a sequence
Elements(s) ==
    {s[j] : j \in 1..Len(s)}

\* MerCounter.__init__: self.counts
MerCounter_init(k) ==
    [mer \in Elements(product(k)) \cup {amb} |-> 0]

\* MerCounter.add_mer: self.counts afterwards
add_mer(counts, mer) ==
    IF mer \in DOMAIN counts THEN [counts EXCEPT ![mer] = @ + 1]
    ELSE [counts EXCEPT ![amb] = @ + 1]

RECURSIVE add_mers(_, _, _)
add_mers(counts, mers, j) ==
    IF Evaluated(counts) /\ j > Len(mers) THEN counts
    ELSE add_mers(add_mer(counts, mers[j]), mers, j + 1)

\* MerCounter.add_sequence: self.counts afterwards
MerCounter_add_sequence(counts, sequence, k) ==
    add_mers(counts, gen_mers(sequence, k), 1)

\* dict.pop(key)
Pop(d, k) ==
    [x \in (DOMAIN d) \ {k} |-> d[x]]

\* the keys of self.counts in insertion order
counts_keys(k) ==
    product(k) \o <<amb>>

\* faulty variant: the count of the popped key overwrites the kept one
collapse_assign(out, mer, rc_key) ==
    IF mer # StrMin(mer, rc_key)
    THEN Pop([out EXCEPT ![rc_key] = out[mer]], mer)
    ELSE out

\* the body of the loop of MerCounter.export once rc_key is known
collapse(out, mer, rc_key) ==
    IF mer # StrMin(mer, rc_key)
    THEN Pop([out EXCEPT ![rc_key] = @ + out[mer]], mer)
    ELSE out

\* one iteration of the loop of MerCounter.export
export_step(out, mer) ==
    IF mer # amb THEN collapse(out, mer, reverse_complement(mer).rc_seq) ELSE out

RECURSIVE export_loop(_, _, _)
export_loop(out, keys, j) ==
    IF Evaluated(out) /\ j > Len(keys) THEN out
    ELSE export_loop(export_step(out, keys[j]), keys, j + 1)

\* MerCounter.export
export(counts, k) ==
    export_loop(counts, counts_keys(k), 1)

(***************************************************************************)
(* MetaInfoSequence                                                        *)
(***************************************************************************)
\* the number of positions of s whose character is in set
RECURSIVE CountIn(_, _)
CountIn(s, set) ==
    IF Len(s) = 0 THEN 0
    ELSE (IF s[1] \in set THEN 1 ELSE 0) + CountIn(Tail(s), set)

\* mer_counter = MerCounter(k); mer_counter.add_sequence(sequence); mer_counter.export()
kmer_export(sequence, k) ==
    export(MerCounter_add_sequence(MerCounter_init(k), sequence, k), k)

\* MetaInfoSequence.calculate_and_set_meta: the three fields it sets
calculate_and_set_meta(sequence, smallest_mer, largest_mer) ==
    [gc_content |-> CountIn(Lower(sequence), {"g", "c"}),
     ambiguous_content |-> Len(sequence) - CountIn(sequence, {"a", "t", "c", "g"}),
     cannonical_kmer_content |->
        [ks \in {ToString(k) : k \in smallest_mer..largest_mer} |->
            kmer_export(sequence, CHOOSE k \in smallest_mer..largest_mer : ToString(k) = ks)]]

\* the fields of a MetaInfoSequence after add_sequence, m being what
\* calculate_and_set_meta has set
MetaInfoSequence_fields(fasta_header, sequence, m) ==
    [deprecated_header |-> fasta_header,
     seqid |-> BeforeFirst(fasta_header, " "),
     total_bp |-> Len(sequence),
     gc_content |-> m.gc_content,
     cannonical_kmer_content |-> m.cannonical_kmer_content,
     ambiguous_content |-> m.ambiguous_content]

\* MetaInfoSequence.add_sequence on a fresh MetaInfoSequence (id_delim = ' ')
MetaInfoSequence_add_sequence(fasta_header, sequence, smallest_mer, largest_mer) ==
    MetaInfoSequence_fields(fasta_header, sequence,
                            calculate_and_set_meta(Lower(sequence), smallest_mer, largest_mer))

\* MetaInfoSequence.__init__
MetaInfoSequence_init ==
    [deprecated_header |-> << >>, seqid |-> << >>, total_bp |-> 0, gc_content |-> 0,
     cannonical_kmer_content |-> << >>, ambiguous_content |-> 0]

(***************************************************************************)
(* SequenceSlice                                                           *)
(***************************************************************************)
\* Python's None
None ==
    "None"

\* chunk length passed to chunk_str by SequenceSlice
ChunkLen == 100

SequenceSlice_add_sequence(sequence, seqid) ==
    [sequence |-> chunk_str(sequence, ChunkLen), slice_id |-> seqid,
     start |-> 0, end |-> Len(sequence), processing_set |-> None]

add_slice(sequence, slice_id, start, end, processing_set) ==
    [sequence |-> chunk_str(sequence, ChunkLen), slice_id |-> slice_id,
     start |-> start, end |-> end, processing_set |-> processing_set]

(***************************************************************************)
(* Collaborators of StructuredSequence that live in helixerprep.core:      *)
(* CoordinateGenerator (core.partitions) and IDMaker (core.helpers).       *)
(***************************************************************************)
\* a string read as a number: the way a seed string starts a generator
RECURSIVE SeedNum(_, _)
SeedNum(s, h) ==
    IF Len(s) = 0 THEN h ELSE SeedNum(Tail(s), (h * 31 + CodePoint(s[1])) % 65537)

\* the next state of the generator
NextRand(r) ==
    (r * 75 + 74) % 65537

RECURSIVE RandAt(_, _)
RandAt(r, i) ==
    IF i = 0 THEN r ELSE RandAt(NextRand(r), i - 1)

processing_sets ==
    <<"train", "dev", "test">>

\* n pieces of near-equal length over [0, length), labelled by the generator started at r
pieces(r, length, n) ==
    [i \in 1..n |->
        <<((i - 1) * length) \div n,
          (i * length) \div n,
          processing_sets[(RandAt(r, i) % 3) + 1]>>]

\* CoordinateGenerator(seed, max_len).divvy_coordinates(seed, length): the ordered
\* (begin, end, processing_set) triples; ceil(length / max_len) pieces of near-equal
\* length, each labelled by the generator started from the seed
divvy_coordinates(seed, length, maxlen) ==
    pieces(SeedNum(seed, 7), length, (length + maxlen - 1) \div maxlen)

\* '{:06}'.format(n) for 0 <= n < 10^6
ZeroPad6(n) ==
    [d \in 1..6 |-> Ascii[17 + ((n \div (10 ^ (6 - d))) % 10)]]

\* IDMaker(prefix).next_unique_id() on its (counter + 1)-th call
next_unique_id(prefix, counter) ==
    prefix \o ZeroPad6(counter)

(***************************************************************************)
(* StructuredSequence                                                      *)
(***************************************************************************)
\* subseqs += subseq.sequence, for every slice in order
RECURSIVE all_chunks(_)
all_chunks(sl) ==
    IF Len(sl) = 0 THEN << >> ELSE sl[1].sequence \o all_chunks(Tail(sl))

\* ''.join(subseqs)
RECURSIVE Join(_)
Join(subseqs) ==
    IF Len(subseqs) = 0 THEN << >> ELSE subseqs[1] \o Join(Tail(subseqs))

full_sequence(sl) ==
    Join(all_chunks(sl))

HexDigits ==
    <<"0", "1", "2", "3", "4", "5", "6", "7", "8", "9", "a", "b", "c", "d", "e", "f">>

\* hashlib.md5(text).hexdigest(): a fixed-width hexadecimal digest of the text. The model
\* keeps the shape (a function of the text alone, rendered in a fixed number of hex
\* digits) with an 8-bit polynomial digest in place of the 128-bit one.
RECURSIVE Digest(_, _)
Digest(text, h) ==
    IF Len(text) = 0 THEN h ELSE Digest(Tail(text), (h * 33 + CodePoint(text[1])) % 256)

seq_hash(sl) ==
    LET d == Digest(full_sequence(sl), 5)
    IN  <<HexDigits[(d \div 16) + 1], HexDigits[(d % 16) + 1]>>

divvy_up_coords(sl, mi, userseed, maxlen) ==
    divvy_coordinates(seq_hash(sl) \o userseed, mi.total_bp, maxlen)

\* the loop of divvy_up_sequence: one SequenceSlice per coordinate triple
make_slices(sequence, coords, prefix) ==
    [i \in 1..Len(coords) |->
        add_slice(Slice(sequence, coords[i][1], coords[i][2]),
                  next_unique_id(prefix, i - 1),
                  coords[i][1], coords[i][2], coords[i][3])]

\* faulty variant: the new slices are appended to the old list
divvy_up_sequence_keep(sl, mi, userseed, maxlen) ==
    [slices |-> sl \o make_slices(full_sequence(sl), divvy_up_coords(sl, mi, userseed, maxlen),
                                  mi.seqid \o <<"_">>),
     meta_info |-> mi]

\* StructuredSequence.divvy_up_sequence: the object's fields afterwards
divvy_up_sequence(sl, mi, userseed, maxlen) ==
    [slices |-> make_slices(full_sequence(sl), divvy_up_coords(sl, mi, userseed, maxlen),
                            mi.seqid \o <<"_">>),
     meta_info |-> mi]

\* lines 47-49 of StructuredSequence.add_sequence, m being the new self.meta_info
append_unsliced(sl, sequence, m) ==
    [slices |-> Append(sl, SequenceSlice_add_sequence(sequence, m.seqid)),
     meta_info |-> m]

\* StructuredSequence.add_sequence: the object's fields afterwards
StructuredSequence_add_sequence(sl, mi, fasta_header, sequence, smallest_mer, largest_mer) ==
    append_unsliced(sl, sequence,
        MetaInfoSequence_add_sequence(fasta_header, sequence, smallest_mer, largest_mer))

\* StructuredSequence.__init__
StructuredSequence_init ==
    [slices |-> << >>, meta_info |-> MetaInfoSequence_init]

(***************************************************************************)
(* MetaInfoGenome and StructuredGenome                                     *)
(***************************************************************************)
\* MetaInfoGenome.__init__
MetaInfoGenome_init ==
    [total_bp |-> 0, gc_content |-> 0, cannonical_kmer_content |-> << >>,
     ambiguous_content |-> 0, species |-> << >>, accession |-> << >>,
     version |-> << >>, acquired_from |-> << >>]

\* key-wise sum of two histograms; a key of one side only is carried through
add_paired_counts(add_to, add_from) ==
    [mer \in (DOMAIN add_to) \cup (DOMAIN add_from) |->
        IF mer \notin DOMAIN add_from THEN add_to[mer]
        ELSE IF mer \notin DOMAIN add_to THEN add_from[mer]
        ELSE add_to[mer] + add_from[mer]]

\* core.structure.add_paired_dictionaries on two mappings k -> histogram: a new mapping,
\* neither argument is changed
add_paired_dictionaries(add_to, add_from) ==
    [ks \in (DOMAIN add_to) \cup (DOMAIN add_from) |->
        IF ks \notin DOMAIN add_from THEN add_to[ks]
        ELSE IF ks \notin DOMAIN add_to THEN add_from[ks]
        ELSE add_paired_counts(add_to[ks], add_from[ks])]

\* faulty variant: the numbers of the sequence replace those of the genome
add_sequence_meta_info_assign(self, seq_met_info) ==
    [self |-> [self EXCEPT
                  !.total_bp = seq_met_info.total_bp,
                  !.gc_content = seq_met_info.gc_content,
                  !.cannonical_kmer_content =
                      add_paired_dictionaries(@, seq_met_info.cannonical_kmer_content),
                  !.ambiguous_content = seq_met_info.ambiguous_content],
     seq_met_info |-> seq_met_info]

\* faulty variant: the numbers are accumulated in the sequence's MetaInfo as well
add_sequence_meta_info_both(self, seq_met_info) ==
    [self |-> [self EXCEPT
                  !.total_bp = @ + seq_met_info.total_bp,
                  !.gc_content = @ + seq_met_info.gc_content,
                  !.cannonical_kmer_content =
                      add_paired_dictionaries(@, seq_met_info.cannonical_kmer_content),
                  !.ambiguous_content = @ + seq_met_info.ambiguous_content],
     seq_met_info |-> [seq_met_info EXCEPT
                  !.total_bp = @ + self.total_bp,
                  !.gc_content = @ + self.gc_content,
                  !.ambiguous_content = @ + self.ambiguous_content]]

\* MetaInfoGenome.add_sequence_meta_info: both objects after the call
add_sequence_meta_info(self, seq_met_info) ==
    [self |-> [self EXCEPT
                  !.total_bp = @ + seq_met_info.total_bp,
                  !.gc_content = @ + seq_met_info.gc_content,
                  !.cannonical_kmer_content =
                      add_paired_dictionaries(@, seq_met_info.cannonical_kmer_content),
                  !.ambiguous_content = @ + seq_met_info.ambiguous_content],
     seq_met_info |-> seq_met_info]

\* lines 27-28 of add_fasta: merged is what add_sequence_meta_info left of the genome's
\* and of the holder's MetaInfo
append_holder(seqs, seq_holder, merged) ==
    [sequences |-> Append(seqs, [slices |-> seq_holder.slices,
                                 meta_info |-> merged.seq_met_info]),
     meta_info |-> merged.self]

\* lines 24-28 of add_fasta for one (infos, seq) pair, seq_holder being the new
\* StructuredSequence after add_sequence
add_holder(seqs, gmeta, seq_holder) ==
    append_holder(seqs, seq_holder, add_sequence_meta_info(gmeta, seq_holder.meta_info))

\* the loop of add_fasta from the j-th record on; g is the genome so far
RECURSIVE add_fasta_loop(_, _, _, _, _)
add_fasta_loop(g, records, j, smallest_mer, largest_mer) ==
    IF j > Len(records) THEN g
    ELSE add_fasta_loop(
            add_holder(g.sequences, g.meta_info,
                       StructuredSequence_add_sequence(StructuredSequence_init.slices,
                                                       StructuredSequence_init.meta_info,
                                                       records[j][1], records[j][2],
                                                       smallest_mer, largest_mer)),
            records, j + 1, smallest_mer, largest_mer)

\* StructuredGenome.add_fasta: the genome afterwards; records is what
\* fastahelper.FastaParser().read_fasta(fasta) yields
add_fasta(seqs, gmeta, fasta, records, smallest_mer, largest_mer) ==
    add_fasta_loop([sequences |-> seqs,
                    meta_info |-> [gmeta EXCEPT
                                      !.species = maybe_add_info_from_fasta(@, fasta)]],
                   records, 1, smallest_mer, largest_mer)

\* StructuredGenome.divvy_each_sequence: self.sequences afterwards
divvy_each_sequence(seqs, userseed, maxlen) ==
    [i \in 1..Len(seqs) |->
        divvy_up_sequence(seqs[i].slices, seqs[i].meta_info, userseed, maxlen)]

(***************************************************************************)
(* Inputs                                                                  *)
(***************************************************************************)
\* default of the max_len parameter
DefaultMaxLen == 2000000

Texts ==
    StringsUpTo({"a", "G"}, MaxTextLen)

Headers ==
    {<<"c", "1", " ", "x">>}

\* the defaults of (smallest_mer, largest_mer)
DefaultMers ==
    <<2, 2>>

\* (smallest_mer, largest_mer) as handed to add_fasta
MerRanges ==
    {<<1, 2>>, <<2, 2>>}

UserSeeds ==
    {<<"p">>, <<"q">>}

MaxLens ==
    (1..MaxMaxLen) \cup {DefaultMaxLen}

(***************************************************************************)
(* One StructuredSequence under any calls of its two methods               *)
(***************************************************************************)
Idle ==
    /\ sequences = << >>
    /\ genome = MetaInfoGenome_init
    /\ ingested = << >>
    /\ input = << >>
    /\ output = << >>
    /\ pc = "none"

Init ==
    /\ slices = StructuredSequence_init.slices
    /\ meta_info = StructuredSequence_init.meta_info
    /\ lastOp = "init"
    /\ user_seed = << >>
    /\ max_len = DefaultMaxLen
    /\ Idle

AddSequence ==
    /\ Len(slices) < MaxAddSlices
    /\ \E fasta_header \in Headers, sequence \in Texts, mers \in {DefaultMers} :
          \E after \in {StructuredSequence_add_sequence(slices, meta_info, fasta_header,
                                                          sequence, mers[1], mers[2])} :
              /\ slices' = after.slices
              /\ meta_info' = after.meta_info
    /\ lastOp' = "add_sequence"
    /\ UNCHANGED <<user_seed, max_len, genomeVars, fnVars>>

DivvyUpSequence ==
    /\ \E us \in UserSeeds, ml \in MaxLens :
          \E after \in {divvy_up_sequence(slices, meta_info, us, ml)} :
              /\ slices' = after.slices
              /\ meta_info' = after.meta_info
              /\ user_seed' = us
              /\ max_len' = ml
    /\ lastOp' = "divvy_up_sequence"
    /\ UNCHANGED <<genomeVars, fnVars>>

Next ==
    \/ AddSequence
    \/ DivvyUpSequence

Spec ==
    Init /\ [][Next]_vars

(***************************************************************************)
(* Properties of StructuredSequence                                        *)
(***************************************************************************)
\* s sorts before t when the slices are ordered by start (and by end among equal starts)
SliceBefore(s, t) ==
    \/ s.start < t.start
    \/ s.start = t.start /\ s.end <= t.end

RECURSIVE InsertSlice(_, _)
InsertSlice(sorted, s) ==
    IF Len(sorted) = 0 THEN <<s>>
    ELSE IF SliceBefore(s, sorted[1]) THEN <<s>> \o sorted
    ELSE <<sorted[1]>> \o InsertSlice(Tail(sorted), s)

RECURSIVE SortedByStart(_)
SortedByStart(sl) ==
    IF Len(sl) = 0 THEN << >> ELSE InsertSlice(SortedByStart(Tail(sl)), sl[1])

\* the slices, ordered by start, exactly tile [0, total)
Tiles(sl, total) ==
    LET o == SortedByStart(sl)
    IN  IF Len(o) = 0 THEN total = 0
        ELSE /\ o[1].start = 0
             /\ \A i \in 1..(Len(o) - 1) : o[i].end = o[i + 1].start
             /\ o[Len(o)].end = total

\* C1: in every reachable state of a StructuredSequence the slices, ordered by start,
\* exactly tile [0, meta_info.total_bp): first start 0, each end the next start, last
\* end total_bp.
C1_SlicesTileSequence ==
    Tiles(slices, meta_info.total_bp)

\* C2 as stated: every slice in the list, after add_sequence as well as after
\* divvy_up_sequence, has a length in (0, max_len].
C2_EverySliceWithinMaxLen ==
    \A i \in 1..Len(slices) :
        /\ slices[i].end - slices[i].start > 0
        /\ slices[i].end - slices[i].start <= max_len

\* C2 as amended: every slice of the list that divvy_up_sequence(max_len) leaves behind
\* has a length in (0, max_len].
C2_DivviedSliceWithinMaxLen ==
    lastOp = "divvy_up_sequence" =>
        \A i \in 1..Len(slices) :
            /\ slices[i].end - slices[i].start > 0
            /\ slices[i].end - slices[i].start <= max_len

C2_Witness ==
    /\ lastOp = "divvy_up_sequence"
    /\ Len(slices) >= 2
    /\ meta_info.total_bp > max_len
    /\ \E i \in 1..Len(slices) : slices[i].end - slices[i].start = max_len

\* C3: a second divvy_up_sequence call with the same user seed and max_len on an
\* already partitioned StructuredSequence leaves the same slice list (ranges, labels,
\* texts and slice ids) as the first.
C3_RepeatedDivvyIsIdentical ==
    [][(/\ lastOp = "divvy_up_sequence"
        /\ lastOp' = "divvy_up_sequence"
        /\ user_seed' = user_seed
        /\ max_len' = max_len) => slices' = slices]_vars

(***************************************************************************)
(* reverse_complement applied once and then to its own result              *)
(***************************************************************************)
\* a StructuredSequence that nothing is called on
SequenceIdle ==
    /\ slices = StructuredSequence_init.slices
    /\ meta_info = StructuredSequence_init.meta_info
    /\ lastOp = "init"
    /\ user_seed = << >>
    /\ max_len = DefaultMaxLen
    /\ sequences = << >>
    /\ genome = MetaInfoGenome_init
    /\ ingested = << >>

\* the 15 IUPAC symbols in upper and in lower case
IUPAC ==
    {"A", "C", "G", "T", "M", "R", "W", "S", "Y", "K", "V", "H", "D", "B", "N",
     "a", "c", "g", "t", "m", "r", "w", "s", "y", "k", "v", "h", "d", "b", "n"}

RCInputs ==
    StringsUpTo(IUPAC \cup {"x", "-"}, MaxRCLen)

InitRC ==
    /\ input \in RCInputs
    /\ output = << >>
    /\ pc = "start"
    /\ SequenceIdle

RCOnce ==
    /\ pc = "start"
    /\ output' = reverse_complement(input)
    /\ pc' = "once"
    /\ UNCHANGED <<seqVars, genomeVars, input>>

RCTwice ==
    /\ pc = "once"
    /\ ~output.raised
    /\ output' = reverse_complement(output.rc_seq)
    /\ pc' = "twice"
    /\ UNCHANGED <<seqVars, genomeVars, input>>

NextRC ==
    \/ RCOnce
    \/ RCTwice

SpecRC ==
    InitRC /\ [][NextRC]_vars

\* C6: reverse_complement(reverse_complement(s)) = s for every string s over the 30
\* supported symbols, the empty string included.
C6_Involution ==
    (pc = "twice" /\ Chars(input) \subseteq IUPAC) =>
        /\ ~output.raised
        /\ output.rc_seq = input

C6_Witness ==
    /\ pc = "twice"
    /\ Len(input) >= 2
    /\ input[1] # input[Len(input)]
    /\ input[1] \in {"M", "k", "V", "d"}
    /\ output.rc_seq = input

\* C8: reverse_complement raises exactly when the input has a character outside the
\* complement alphabet; the character it names occurs in the input and is outside the
\* alphabet, and no result string comes back.
C8_InvalidCharacter ==
    pc = "once" =>
        /\ output.raised <=> (\E i \in 1..Len(input) : input[i] \notin IUPAC)
        /\ output.raised =>
              /\ output.base \in Chars(input) \ IUPAC
              /\ "rc_seq" \notin DOMAIN output

C8_Witness ==
    /\ pc = "once"
    /\ output.raised
    /\ Len(input) >= 2
    /\ Chars(input) \cap IUPAC # {}
    /\ output.base = "x"

(***************************************************************************)
(* MetaInfoGenome.maybe_add_info_from_fasta                                *)
(***************************************************************************)
PathTokens ==
    {<<"x">>, <<"/">>, dot_fa, dot_fasta}

RECURSIVE PathsOf(_)
PathsOf(n) ==
    IF n = 0 THEN {<< >>}
    ELSE PathsOf(n - 1) \cup {p \o t : p \in PathsOf(n - 1), t \in PathTokens}

Paths ==
    PathsOf(MaxPathTokens)

InitPath ==
    /\ input \in [fasta : Paths, species : {<< >>, <<"A", "t">>}]
    /\ output = << >>
    /\ pc = "start"
    /\ SequenceIdle

\* input.species is MetaInfoGenome.species before the call, output is the field after it
MaybeAddInfoFromFasta ==
    /\ pc = "start"
    /\ output' = maybe_add_info_from_fasta(input.species, input.fasta)
    /\ pc' = "done"
    /\ UNCHANGED <<seqVars, genomeVars, input>>

NextPath ==
    MaybeAddInfoFromFasta

SpecPath ==
    InitPath /\ [][NextPath]_vars

\* what is left of a name when only its trailing .fasta or .fa is stripped
StripTrailingSuffix(name) ==
    IF EndsWith(name, dot_fasta) THEN Slice(name, 0, Len(name) - Len(dot_fasta))
    ELSE IF EndsWith(name, dot_fa) THEN Slice(name, 0, Len(name) - Len(dot_fa))
    ELSE name

\* C9: with no species set, the species defaulted from a path is the path's file name
\* with only its trailing .fasta or .fa stripped, every other character kept; a name
\* with neither suffix is used as it is.
C9_SpeciesIsNameWithoutSuffix ==
    (pc = "done" /\ input.species = << >>) =>
        output = StripTrailingSuffix(AfterLast(input.fasta, "/"))

(***************************************************************************)
(* MerCounter: __init__, add_sequence, export                              *)
(***************************************************************************)
MerTexts ==
    StringsUpTo({"a", "c", "g", "t", "n"}, MaxMerLen)

InitMer ==
    /\ input \in [sequence : MerTexts, k : 1..MaxK]
    /\ output = [counts |-> MerCounter_init(input.k)]
    /\ pc = "init"
    /\ SequenceIdle

MerAddSequence ==
    /\ pc = "init"
    /\ output' = [counts |-> MerCounter_add_sequence(output.counts, input.sequence, input.k)]
    /\ pc' = "counted"
    /\ UNCHANGED <<seqVars, genomeVars, input>>

MerExport ==
    /\ pc = "counted"
    /\ output' = [counts |-> output.counts, out |-> export(output.counts, input.k)]
    /\ pc' = "exported"
    /\ UNCHANGED <<seqVars, genomeVars, input>>

NextMer ==
    \/ MerAddSequence
    \/ MerExport

SpecMer ==
    InitMer /\ [][NextMer]_vars

\* the sum of the values of a histogram over keys, added to acc
RECURSIVE SumOver(_, _, _)
SumOver(h, keys, acc) ==
    IF Evaluated(acc) /\ keys = {} THEN acc
    ELSE SumOver(h, keys \ {CHOOSE x \in keys : TRUE}, acc + h[CHOOSE x \in keys : TRUE])

SumCounts(h) ==
    SumOver(h, DOMAIN h, 0)

\* C4: after MerCounter(k).add_sequence(text) with len(text) = L, the raw counts (the
\* 4^k keys and the ambiguous bucket) sum to L - k + 1 when k <= L, and are all zero
\* when k > L.
C4_WindowCount ==
    pc = "counted" =>
        /\ Cardinality(DOMAIN output.counts) = 4 ^ input.k + 1
        /\ IF input.k <= Len(input.sequence)
           THEN SumCounts(output.counts) = Len(input.sequence) - input.k + 1
           ELSE \A mer \in DOMAIN output.counts : output.counts[mer] = 0

C4_Witness ==
    /\ pc = "counted"
    /\ input.k = 2
    /\ Len(input.sequence) = 4
    /\ output.counts[amb] = 1
    /\ output.counts[<<"a", "c">>] = 1
    /\ output.counts[<<"c", "g">>] = 1

\* the Watson-Crick partner of an unambiguous lower-case base
Partner ==
    [b \in {"a", "c", "g", "t"} |->
        IF b = "a" THEN "t" ELSE IF b = "t" THEN "a" ELSE IF b = "c" THEN "g" ELSE "c"]

\* the reverse complement of a k-mer over a, c, g, t
MerPartner(m) ==
    [i \in 1..Len(m) |-> Partner[m[Len(m) + 1 - i]]]

\* alphabetical rank of the four bases
BaseRank ==
    [b \in {"a", "c", "g", "t"} |->
        IF b = "a" THEN 1 ELSE IF b = "c" THEN 2 ELSE IF b = "g" THEN 3 ELSE 4]

\* m comes before r alphabetically, for two different k-mers of the same length
MerBefore(m, r) ==
    \E i \in 1..Len(m) :
        /\ \A j \in 1..(i - 1) : m[j] = r[j]
        /\ BaseRank[m[i]] < BaseRank[r[i]]

\* C5: export keeps, of every non-palindromic k-mer m and its reverse complement,
\* exactly the alphabetically smaller one, with the sum of the two raw counts;
\* palindromic k-mers and the ambiguous bucket keep their raw counts.
C5_Canonical ==
    pc = "exported" =>
        /\ amb \in DOMAIN output.out
        /\ output.out[amb] = output.counts[amb]
        /\ \A m \in [1..input.k -> {"a", "c", "g", "t"}] :
              IF MerPartner(m) = m
              THEN m \in DOMAIN output.out /\ output.out[m] = output.counts[m]
              ELSE IF MerBefore(m, MerPartner(m))
              THEN /\ m \in DOMAIN output.out
                   /\ MerPartner(m) \notin DOMAIN output.out
                   /\ output.out[m] = output.counts[m] + output.counts[MerPartner(m)]
              ELSE m \notin DOMAIN output.out

C5_Witness ==
    /\ pc = "exported"
    /\ input.k = 2
    /\ output.counts[<<"a", "c">>] = 1
    /\ output.counts[<<"g", "t">>] = 1
    /\ output.counts[<<"c", "g">>] = 1
    /\ output.out[<<"a", "c">>] = 2
    /\ output.out[<<"c", "g">>] = 1

(***************************************************************************)
(* One StructuredGenome under add_fasta and divvy_each_sequence            *)
(***************************************************************************)
GenomeTexts ==
    {<< >>, <<"a", "G">>, <<"c", "n", "t">>}

GenomeFastas ==
    {<<"d", "/", "A", "t", ".", "f", "a">>, <<"O", "s">>}

\* the (infos, seq) pairs one FASTA file can hold
Records ==
    UNION {[1..n -> Headers \X GenomeTexts] : n \in 1..MaxRecords}

InitGenome ==
    /\ sequences = << >>
    /\ genome = MetaInfoGenome_init
    /\ ingested = << >>
    /\ slices = StructuredSequence_init.slices
    /\ meta_info = StructuredSequence_init.meta_info
    /\ lastOp = "init"
    /\ user_seed = << >>
    /\ max_len = DefaultMaxLen
    /\ input = << >>
    /\ output = << >>
    /\ pc = "none"

AddFasta ==
    /\ \E fasta \in GenomeFastas, records \in Records, mers \in MerRanges :
          /\ Len(sequences) + Len(records) <= MaxSeqs
          /\ \E after \in {add_fasta(sequences, genome, fasta, records, mers[1], mers[2])} :
                /\ sequences' = after.sequences
                /\ genome' = after.meta_info
          /\ ingested' = ingested \o
                [j \in 1..Len(records) |->
                    MetaInfoSequence_add_sequence(records[j][1], records[j][2],
                                                  mers[1], mers[2])]
    /\ UNCHANGED <<seqVars, fnVars>>

DivvyEachSequence ==
    /\ \E us \in UserSeeds, ml \in MaxLens :
          sequences' = divvy_each_sequence(sequences, us, ml)
    /\ UNCHANGED <<genome, ingested, seqVars, fnVars>>

NextGenome ==
    \/ AddFasta
    \/ DivvyEachSequence

SpecGenome ==
    InitGenome /\ [][NextGenome]_vars

\* the sum of a sequence of numbers
RECURSIVE SumSeq(_)
SumSeq(ns) ==
    IF Len(ns) = 0 THEN 0 ELSE ns[1] + SumSeq(Tail(ns))

\* the canonical histograms of the i-th sequence
KmerOf(i) ==
    sequences[i].meta_info.cannonical_kmer_content

\* how often the i-th sequence counted mer among its ks-mers
CountOf(i, ks, mer) ==
    IF ks \in DOMAIN KmerOf(i) /\ mer \in DOMAIN KmerOf(i)[ks] THEN KmerOf(i)[ks][mer] ELSE 0

\* the key-wise sum of the canonical histograms of all sequences, whatever their order
KeywiseSum ==
    [ks \in UNION {DOMAIN KmerOf(i) : i \in 1..Len(sequences)} |->
        [mer \in UNION {DOMAIN KmerOf(i)[ks] :
                            i \in {j \in 1..Len(sequences) : ks \in DOMAIN KmerOf(j)}} |->
            SumSeq([i \in 1..Len(sequences) |-> CountOf(i, ks, mer)])]]

\* the genome MetaInfo got by merging the sequences' MetaInfos in the order perm, from
\* the j-th on, into acc
RECURSIVE MergedInOrder(_, _, _)
MergedInOrder(perm, j, acc) ==
    IF j > Len(sequences) THEN acc
    ELSE MergedInOrder(perm, j + 1,
                       add_sequence_meta_info(acc, sequences[perm[j]].meta_info).self)

\* the orders in which n things can be merged
Orders(n) ==
    {perm \in [1..n -> 1..n] : \A a, b \in 1..n : perm[a] = perm[b] => a = b}

\* C7: whatever the order in which the sequences were merged, the genome's total_bp,
\* gc_content and ambiguous_content are the sums of the per-sequence fields and its
\* k-mer histograms are the key-wise sums of the per-sequence canonical histograms.
C7_GenomeIsSumOfSequences ==
    /\ genome.total_bp = SumSeq([i \in 1..Len(sequences) |-> sequences[i].meta_info.total_bp])
    /\ genome.gc_content =
          SumSeq([i \in 1..Len(sequences) |-> sequences[i].meta_info.gc_content])
    /\ genome.ambiguous_content =
          SumSeq([i \in 1..Len(sequences) |-> sequences[i].meta_info.ambiguous_content])
    /\ DOMAIN genome.cannonical_kmer_content = DOMAIN KeywiseSum
    /\ \A ks \in DOMAIN KeywiseSum :
          /\ DOMAIN genome.cannonical_kmer_content[ks] = DOMAIN KeywiseSum[ks]
          /\ \A mer \in DOMAIN KeywiseSum[ks] :
                genome.cannonical_kmer_content[ks][mer] = KeywiseSum[ks][mer]
    /\ \A perm \in Orders(Len(sequences)) :
          MergedInOrder(perm, 1, [MetaInfoGenome_init EXCEPT !.species = genome.species])
              = genome

C7_Witness ==
    /\ Len(sequences) = 2
    /\ sequences[1].meta_info.total_bp = 3
    /\ sequences[2].meta_info.total_bp = 2
    /\ DOMAIN KmerOf(1) # DOMAIN KmerOf(2)
    /\ genome.total_bp = 5
    /\ genome.gc_content = 2
    /\ genome.ambiguous_content = 1
    /\ genome.cannonical_kmer_content["2"][amb] = 2

\* C10: the MetaInfo of a sequence stays what ingestion made it: neither
\* divvy_up_sequence nor add_sequence_meta_info, for this or for a later sequence,
\* changes any of its fields.
C10_SequenceMetaInfoFrozen ==
    /\ Len(ingested) = Len(sequences)
    /\ \A i \in 1..Len(sequences) : sequences[i].meta_info = ingested[i]

C10_Witness ==
    /\ Len(sequences) = 2
    /\ genome.total_bp = 5
    /\ sequences[1].meta_info.total_bp = 2
    /\ Len(sequences[1].slices) = 2
    /\ sequences[1].slices[1].processing_set # None
    /\ sequences[2].slices[1].processing_set = None

====
